---- MODULE Spec2Model ----
(***************************************************************************)
(* Model of the Gmail Pub/Sub webhook of src/main.py: the watermark kept   *)
(* in three module globals and three text files, the webhook handler with  *)
(* its de-dup gate, the resolver, the per-message pipeline, the reset      *)
(* handler, and process crash / restart.                                   *)
(*                                                                         *)
(* Scheduling: every handler is an `async def` whose only awaits are the   *)
(* two reads of the request at its top (main.py 340-341).  Everything      *)
(* after them is synchronous code on the single event loop, so a handler,  *)
(* once past its awaits, runs to its return without another handler        *)
(* running in between.  The model keeps the handler's position in pc, and  *)
(* lets only the running handler (or a crash) take a step while pc is not  *)
(* "idle".                                                                 *)
(***************************************************************************)
EXTENDS Integers, Sequences, FiniteSets, TLC

\* ----------------------------------------------------------------- bounds
MaxTime == 1
MaxPending == 1
MaxCount == 2

\* ------------------------------------------------------ program constants
MaxResults == 50

\* ------------------------------------------------------------------- text
\* Text is a sequence of one-character strings.
WhiteSpace == {" ", "\t", "\n", "\r"}

DigitChars == <<"0", "1", "2", "3", "4", "5", "6", "7", "8", "9">>

RECURSIVE Decimal(_)
Decimal(n) ==
    IF n < 10 THEN <<DigitChars[n + 1]>>
    ELSE Decimal(n \div 10) \o <<DigitChars[(n % 10) + 1]>>

IsDigit(c) == \E i \in 1..10 : DigitChars[i] = c

DigitValue(c) == (CHOOSE i \in 1..10 : DigitChars[i] = c) - 1

RECURSIVE ParseDecimal(_)
ParseDecimal(s) ==
    IF Len(s) = 1 THEN DigitValue(s[1])
    ELSE 10 * ParseDecimal(SubSeq(s, 1, Len(s) - 1)) + DigitValue(s[Len(s)])

RECURSIVE StripLeft(_)
StripLeft(s) ==
    IF s = <<>> THEN s
    ELSE IF Head(s) \in WhiteSpace THEN StripLeft(Tail(s)) ELSE s

RECURSIVE StripRight(_)
StripRight(s) ==
    IF s = <<>> THEN s
    ELSE IF s[Len(s)] \in WhiteSpace THEN StripRight(SubSeq(s, 1, Len(s) - 1)) ELSE s

\* str.strip()
Strip(s) == StripRight(StripLeft(s))

\* The lines a text iterates as when it is read back from a file.
RECURSIVE SplitLines(_, _)
SplitLines(s, cur) ==
    IF s = <<>> THEN (IF cur = <<>> THEN {} ELSE {cur})
    ELSE IF Head(s) = "\n" THEN {cur} \cup SplitLines(Tail(s), <<>>)
    ELSE SplitLines(Tail(s), Append(cur, Head(s)))

\* ----------------------------------------------------------------- values
\* Values json.loads can put under "historyId": a string, a number, or
\* nothing (notif.get returns None).
StrV(s) == [t |-> "str", n |-> 0, s |-> s]
IntV(n) == [t |-> "int", n |-> n, s |-> <<>>]
NoneV == [t |-> "none", n |-> 0, s |-> <<>>]

HistoryIdValues == {StrV(<<"1">>), IntV(1), NoneV}

MessageIds == {<<"a">>, <<"b">>}
MsgOrder == <<(<<"a">>), (<<"b">>)>>

\* f"{value}"
PyStr(v) ==
    CASE v.t = "str" -> v.s
      [] v.t = "int" -> Decimal(v.n)
      [] OTHER -> <<"N", "o", "n", "e">>

\* datetime.isoformat() / datetime.fromisoformat(), time being a number
IsoFormat(t) == Decimal(t)
IsoParses(s) == s # <<>> /\ \A i \in 1..Len(s) : IsDigit(s[i])
FromIsoFormat(s) == ParseDecimal(s)

\* ----------------------------------------------------------- Date headers
\* A Date header that parses is a wall-clock time with the offset of its zone
\* from UTC; the instant it names is the wall-clock time less the offset.
\* Every other header value (garbage, empty, no header at all) is Unparsable.
Offsets == {0, 1}
DateHeader(wall, off) == [k |-> "date", wall |-> wall, off |-> off]
Unparsable == [k |-> "unparsable", wall |-> 0, off |-> 0]
Instant(d) == d.wall - d.off
UtcDates == {DateHeader(w, 0) : w \in 0..MaxTime}
ZonedDates == {DateHeader(w, o) : w \in 0..MaxTime, o \in Offsets}
DateHeaders == {d \in ZonedDates : Instant(d) >= 0} \cup {Unparsable}

\* email.utils.parsedate_to_datetime(date_str).replace(tzinfo=None): the
\* wall-clock time of the header, its offset dropped.
ParsedateNaive(d) == d.wall

\* --------------------------------------------------------------- payloads
MaxParts == 2

\* A part of a message payload.  hasParts: the 'parts' key is there;
\* hasData: the 'data' key is in its body; filename: "" when the key is
\* missing or empty; attachmentId: NoId when its body has none.
NoId == "None"
Part(mimeType, hasParts, parts, hasData, data, filename, attachmentId) ==
    [mimeType |-> mimeType, hasParts |-> hasParts, parts |-> parts,
     hasData |-> hasData, data |-> data,
     filename |-> filename, attachmentId |-> attachmentId]
Leaf(mimeType, data) == Part(mimeType, FALSE, <<>>, TRUE, data, "", NoId)
File(filename, attachmentId) ==
    Part("application/pdf", FALSE, <<>>, FALSE, "", filename, attachmentId)
Multi(mimeType, parts) == Part(mimeType, TRUE, parts, FALSE, "", "", NoId)

\* The sequences of 1..n elements of S.
SeqsUpTo(S, n) == UNION {[1..k -> S] : k \in 1..n}

\* Message bodies: a single part, or a multi-part tree of up to MaxParts
\* parts, each of them a text part with its own content, an empty multi-part
\* or a multi-part around one text part.
TextLeaves == {Leaf("text/plain", "YQ=="), Leaf("text/html", "Yg=="),
               Leaf("text/html", "Yw==")}
InnerTexts == {Multi("multipart/alternative", ps) :
                 ps \in {<<>>} \cup {<<t>> : t \in TextLeaves}}
BodyTrees == TextLeaves \cup
    {Multi("multipart/mixed", ps) :
       ps \in SeqsUpTo(TextLeaves \cup InnerTexts, MaxParts)}

\* Messages with up to MaxParts parts, each of them an attached file, with
\* or without an attachment id, or a multi-part around one.
Files == {File("f.pdf", "att"), File("g.pdf", NoId)}
InnerFiles == {Multi("multipart/related", <<f>>) : f \in Files}
FileTrees ==
    {Multi("multipart/mixed", ps) : ps \in SeqsUpTo(Files \cup InnerFiles, MaxParts)}

Payloads == BodyTrees \cup FileTrees

\* The two messages of the other scenarios: text with one attached file that
\* has an attachment id, and text alone.
WithFile == Multi("multipart/mixed", <<Leaf("text/plain", "YQ=="), File("f.pdf", "att")>>)
TextOnly == Leaf("text/plain", "YQ==")
NoPayload == Leaf("", "")

\* base64.urlsafe_b64decode(data).decode('utf-8')
B64Decode(data) ==
    CASE data = "YQ==" -> "a"
      [] data = "Yg==" -> "b"
      [] data = "Yw==" -> "c"
      [] OTHER -> ""

\* mimeType.startswith('multipart/')
IsMultipart(mimeType) ==
    mimeType \in {"multipart/mixed", "multipart/alternative", "multipart/related"}

\* _extract_body_recursive (lines 186-206).  PlainLoop is its first loop
\* from part i on: what it returns, or that it ran to its end.
RECURSIVE ExtractBodyRecursive(_), PlainLoop(_, _), HtmlLoop(_, _)
PlainLoop(parts, i) ==
    IF i > Len(parts) THEN [returned |-> FALSE, value |-> ""]
    ELSE LET part == parts[i]
         IN IF part.mimeType = "text/plain" /\ part.hasData
            THEN [returned |-> TRUE, value |-> B64Decode(part.data)]
            ELSE IF IsMultipart(part.mimeType)
            THEN LET result == ExtractBodyRecursive(part)
                 IN IF result # "" THEN [returned |-> TRUE, value |-> result]
                    ELSE PlainLoop(parts, i + 1)
            ELSE PlainLoop(parts, i + 1)

\* The second loop of _extract_body_recursive from part i on.
HtmlLoop(parts, i) ==
    IF i > Len(parts) THEN ""
    ELSE IF parts[i].mimeType = "text/html" /\ parts[i].hasData
    THEN B64Decode(parts[i].data)
    ELSE HtmlLoop(parts, i + 1)

ExtractBodyRecursive(payload) ==
    IF payload.hasParts
    THEN LET plain == PlainLoop(payload.parts, 1)
         IN IF plain.returned THEN plain.value ELSE HtmlLoop(payload.parts, 1)
    ELSE IF payload.mimeType \in {"text/plain", "text/html"} /\ payload.hasData
    THEN B64Decode(payload.data)
    ELSE ""

\* extract_body (lines 184-208)
ExtractBody(payload) == ExtractBodyRecursive(payload)

\* One entry of the attachments list; downloaded_filename is <<>> until the
\* download loop sets it.
AttachmentInfo(part) ==
    [filename |-> part.filename, attachmentId |-> part.attachmentId,
     downloaded_filename |-> <<>>]

\* extract_attachment_info (lines 210-229): the parts with a file name, in
\* the order the descent meets them.
RECURSIVE ExtractAttachmentsRecursive(_, _)
ExtractAttachmentsRecursive(parts, i) ==
    IF i > Len(parts) THEN <<>>
    ELSE LET part == parts[i]
             here == IF part.filename # "" THEN <<AttachmentInfo(part)>>
                     ELSE IF part.hasParts
                     THEN ExtractAttachmentsRecursive(part.parts, 1)
                     ELSE <<>>
         IN here \o ExtractAttachmentsRecursive(parts, i + 1)

ExtractAttachmentInfo(payload) ==
    IF payload.hasParts THEN ExtractAttachmentsRecursive(payload.parts, 1) ELSE <<>>

\* ------------------------------------------------------------------ files
NoFile == [exists |-> FALSE, text |-> <<>>, lines |-> {}]
Truncated == [exists |-> TRUE, text |-> <<>>, lines |-> {}]

\* f.write(f"{id}\n") for every id of a set of texts
WrittenLines(texts) == UNION {SplitLines(t \o <<"\n">>, <<>>) : t \in texts}

\* {line.strip() for line in f if line.strip()}
ReadLines(file) == {Strip(l) : l \in file.lines} \ {<<>>}

VARIABLES
    APP_START_TIME, PROCESSED_MESSAGES, PROCESSED_HISTORY_IDS,
    app_start_time_txt, processed_messages_txt, processed_history_ids_txt,
    now, mail, pending,
    pc, ret,
    history_id, message_ids, processed_emails,
    call, okDone, passed, lastRolled, effects, saving, boot

mem == <<APP_START_TIME, PROCESSED_MESSAGES, PROCESSED_HISTORY_IDS>>
disk == <<app_start_time_txt, processed_messages_txt, processed_history_ids_txt>>
locals == <<history_id, message_ids, processed_emails>>
ghost == <<call, okDone, passed, lastRolled, effects, saving, boot>>
vars == <<mem, disk, now, mail, pending, pc, ret, locals, ghost>>

\* -------------------------------------------------------------- envelopes
\* The request body of the webhook: {"message": {"data": base64(json)}}.
\* message: "absent" (no or empty "message"), "nodata" (no "data" in it),
\* "data"; data: what the data decodes to.
Envelope(message, data, h) == [message |-> message, data |-> data, historyId |-> h]

Malformed ==
    {Envelope("absent", "none", NoneV), Envelope("nodata", "none", NoneV),
     Envelope("data", "bad_b64", NoneV), Envelope("data", "not_json", NoneV)}

Envelopes == {Envelope("data", "json", h) : h \in HistoryIdValues}

\* The notifications by the kind of history id they carry.
Notification == Envelope("data", "json", StrV(<<"1">>))
NumberNotification == Envelope("data", "json", IntV(1))
MissingNotification == Envelope("data", "json", NoneV)
TextOrMissing == {Notification, MissingNotification}
TextOrNumber == {Notification, NumberNotification}

\* What lines 343-348 raise on an envelope.
Decode(env) ==
    IF env.message # "data" THEN "HTTPException400"
    ELSE IF env.data = "bad_b64" THEN "binascii.Error"
    ELSE IF env.data = "not_json" THEN "JSONDecodeError"
    ELSE "none"

\* The status the webhook answers with: a returned dict is a 200, and every
\* exception raised inside the try, HTTPException(400) included, is caught by
\* `except Exception` and raised again as HTTPException(500).
WebhookStatus(raised) == IF raised = "none" THEN 200 ELSE 500

\* ---------------------------------------------------------------- records
\* What one run of process_email did: the Date header and the payload it
\* met, how each of its steps ended ("none": not reached), what it returned,
\* and of the record it built the body, the attachments and the downloaded
\* attachments; outcomes: how the download loop went for each attachment.
NoLog == [date |-> Unparsable, payload |-> NoPayload,
          fetch |-> "none", download |-> "none",
          write |-> "none", read |-> "none", result |-> "none",
          body |-> "", attachments |-> <<>>, downloaded_attachments |-> <<>>,
          outcomes |-> <<>>]

NoLogs == [m \in MessageIds |-> NoLog]

NoCall == [kind |-> "none", http |-> 0, h |-> NoneV, malformed |-> FALSE,
           replay |-> FALSE, retry |-> FALSE, authFailed |-> FALSE,
           listFailed |-> FALSE, remote |-> FALSE, wrote |-> FALSE,
           pre |-> <<0, {}, {}>>, batch |-> <<>>, log |-> NoLogs]

NoPending == [e \in Envelopes |-> 0]
NoPassed == [h \in HistoryIdValues |-> 0]
NoEffects == [m \in MessageIds |-> [wrote |-> 0, read |-> 0]]

NoBoot == [kind |-> "none", old |-> <<NoFile, {}, {}>>, new |-> <<NoFile, {}, {}>>,
           files |-> <<NoFile, NoFile, NoFile>>, mem |-> <<0, {}, {}>>]

NoMail == [state |-> "none", date |-> Unparsable, payload |-> NoPayload]

\* A message that was marked read: its Date header and its payload no longer
\* matter.
ReadMail == [state |-> "read", date |-> Unparsable, payload |-> NoPayload]

\* What a reader of the three files gets: the epoch text when it parses, and
\* the two sets of stripped non-empty lines.
Observed(e, m, h) ==
    << IF e.exists /\ IsoParses(Strip(e.text)) THEN [exists |-> TRUE, text |-> Strip(e.text), lines |-> {}]
       ELSE NoFile,
       ReadLines(m), ReadLines(h) >>

SavedImageWithoutIds(e, m, h) ==
    << [exists |-> TRUE, text |-> IsoFormat(e), lines |-> {}],
       [exists |-> TRUE, text |-> <<>>, lines |-> WrittenLines(m)],
       [exists |-> TRUE, text |-> <<>>, lines |-> {}] >>

\* What save_app_state leaves in the three files when it runs to its end.
SavedImage(e, m, h) ==
    << [exists |-> TRUE, text |-> IsoFormat(e), lines |-> {}],
       [exists |-> TRUE, text |-> <<>>, lines |-> WrittenLines(m)],
       [exists |-> TRUE, text |-> <<>>, lines |-> WrittenLines({PyStr(x) : x \in h})] >>

Persisted == disk = SavedImage(APP_START_TIME, PROCESSED_MESSAGES, PROCESSED_HISTORY_IDS)

\* ------------------------------------------------------------------- Init
\* The service is deployed in an empty directory and not yet started.
Init ==
    /\ APP_START_TIME = 0
    /\ PROCESSED_MESSAGES = {}
    /\ PROCESSED_HISTORY_IDS = {}
    /\ app_start_time_txt = NoFile
    /\ processed_messages_txt = NoFile
    /\ processed_history_ids_txt = NoFile
    /\ now = 0
    /\ mail = [m \in MessageIds |-> NoMail]
    /\ pending = NoPending
    /\ pc = "down"
    /\ ret = "none"
    /\ history_id = NoneV
    /\ message_ids = <<>>
    /\ processed_emails = <<>>
    /\ call = NoCall
    /\ okDone = {}
    /\ passed = NoPassed
    /\ lastRolled = {}
    /\ effects = NoEffects
    /\ saving = NoBoot
    /\ boot = NoBoot

\* --------------------------------------------------------- save_app_state
\* The three files after the first k file operations of save_app_state on
\* files d and memory <<e, m, h>>: open(.., 'w') truncates (or creates) the
\* file, leaving the `with` block flushes what was written.  k = 6 is the
\* whole function.
SaveUpTo(k, d, e, m, h) ==
    << IF k = 0 THEN d[1] ELSE IF k = 1 THEN Truncated ELSE SavedImage(e, m, h)[1],
       IF k <= 2 THEN d[2] ELSE IF k = 3 THEN Truncated ELSE SavedImage(e, m, h)[2],
       IF k <= 4 THEN d[3] ELSE IF k = 5 THEN Truncated ELSE SavedImage(e, m, h)[3] >>

\* A call of save_app_state, returning to position r.
CallSave(r) ==
    /\ pc' = "save"
    /\ ret' = r
    /\ saving' = [NoBoot EXCEPT !.kind = "save",
                    !.old = Observed(app_start_time_txt, processed_messages_txt,
                                     processed_history_ids_txt),
                    !.new = LET img == SavedImage(APP_START_TIME', PROCESSED_MESSAGES',
                                                  PROCESSED_HISTORY_IDS')
                            IN Observed(img[1], img[2], img[3])]

SaveStepLost ==
    /\ pc = "save"
    /\ pc' = ret
    /\ ret' = "none"
    /\ saving' = NoBoot
    /\ UNCHANGED <<mem, disk, now, mail, pending, locals,
                   call, okDone, passed, lastRolled, effects, boot>>

\* save_app_state runs to its end (lines 32-43).
SaveStep ==
    /\ pc = "save"
    /\ LET d == SaveUpTo(6, disk, APP_START_TIME, PROCESSED_MESSAGES, PROCESSED_HISTORY_IDS)
       IN /\ app_start_time_txt' = d[1]
          /\ processed_messages_txt' = d[2]
          /\ processed_history_ids_txt' = d[3]
    /\ pc' = ret
    /\ ret' = "none"
    /\ saving' = NoBoot
    /\ UNCHANGED <<mem, now, mail, pending, locals,
                   call, okDone, passed, lastRolled, effects, boot>>

\* ------------------------------------------------------------ the handlers
Min(a, b) == IF a < b THEN a ELSE b

PendingTotal(p) ==
    LET RECURSIVE Sum(_)
        Sum(S) == IF S = {} THEN 0
                  ELSE LET e == CHOOSE x \in S : TRUE IN p[e] + Sum(S \ {e})
    IN Sum(Envelopes)

\* The server accepts requests once load_app_state has returned (line 80).
Serving ==
    /\ pc \notin {"down", "load_epoch", "load_sets", "loaded"}
    /\ ~(pc = "save" /\ ret = "load_sets")

\* `history_id in PROCESSED_HISTORY_IDS`
AlreadyProcessed(S, h) == h \in S

MarkSeenLost(S, h) == S
\* PROCESSED_HISTORY_IDS.add(history_id)
MarkSeen(S, h) == S \cup {h}

RollbackKept(S, h) == S
\* PROCESSED_HISTORY_IDS.discard(history_id)
Rollback(S, h) == S \ {h}

\* The remote list call: the unread inbox messages, at most maxResults.
ListMessages ==
    LET all == SelectSeq(MsgOrder, LAMBDA m : mail[m].state = "unread")
    IN SubSeq(all, 1, Min(Len(all), MaxResults))

GetNewMessagesUnfiltered(all, done) == all
\* new_message_ids = [msg_id for msg_id in all_message_ids if msg_id not in PROCESSED_MESSAGES]
GetNewMessages(all, done) == SelectSeq(all, LAMBDA m : m \notin done)

\* is_message_after_start_time: False for a header that is empty or does not
\* parse, else message_date >= APP_START_TIME.
IsMessageAfterStartTime(date, start) ==
    IF date.k # "date" THEN FALSE ELSE ParsedateNaive(date) >= start

\* The transport delivers a request; its handler waits for the body.
Deliver(env) ==
    /\ Serving
    /\ PendingTotal(pending) < MaxPending
    /\ pending' = [pending EXCEPT ![env] = @ + 1]
    /\ UNCHANGED <<mem, disk, now, mail, pc, ret, locals, call, okDone, passed,
                   lastRolled, effects, saving, boot>>

\* gmail_webhook on envelope env, from the end of its awaits to its first
\* save_app_state call (lines 343-366), or to its response when it ends
\* before that.
Handle(env) ==
    LET h == env.historyId
        c == [NoCall EXCEPT !.kind = "running", !.h = h, !.pre = mem,
                            !.replay = (Decode(env) = "none" /\ h \in okDone),
                            !.retry = (Decode(env) = "none" /\ h \in lastRolled)]
    IN IF Decode(env) # "none"
       THEN /\ call' = [c EXCEPT !.malformed = TRUE, !.kind = "http_error",
                                 !.http = WebhookStatus(Decode(env))]
            /\ pc' = "respond"
            /\ UNCHANGED <<mem, ret, locals, passed, saving>>
       ELSE IF AlreadyProcessed(PROCESSED_HISTORY_IDS, h)
       THEN /\ call' = [c EXCEPT !.kind = "skip", !.http = WebhookStatus("none")]
            /\ pc' = "respond"
            /\ UNCHANGED <<mem, ret, locals, passed, saving>>
       ELSE /\ PROCESSED_HISTORY_IDS' = MarkSeen(PROCESSED_HISTORY_IDS, h)
            /\ UNCHANGED <<APP_START_TIME, PROCESSED_MESSAGES>>
            /\ history_id' = h
            /\ UNCHANGED <<message_ids, processed_emails>>
            /\ call' = c
            /\ passed' = [passed EXCEPT ![h] = Min(@ + 1, MaxCount)]
            /\ CallSave("auth")

\* The event loop resumes the handler of a waiting request.
Begin(env) ==
    /\ pc = "idle"
    /\ pending[env] > 0
    /\ pending' = [pending EXCEPT ![env] = @ - 1]
    /\ Handle(env)
    /\ UNCHANGED <<disk, now, mail, okDone, lastRolled, effects, boot>>

\* A request whose body does not decode.  Its handler reads and writes no
\* state of the program, so the time it waits for its body is left out.
BadRequest(env) ==
    /\ pc = "idle"
    /\ Decode(env) # "none"
    /\ Handle(env)
    /\ UNCHANGED <<disk, now, mail, pending, okDone, lastRolled, effects, boot>>

\* get_gmail_service (lines 368-376).
Authenticate ==
    /\ pc = "auth"
    /\ \/ /\ pc' = "list"
          /\ call' = [call EXCEPT !.remote = TRUE]
          /\ UNCHANGED <<mem, ret, saving, passed>>
       \/ /\ PROCESSED_HISTORY_IDS' = Rollback(PROCESSED_HISTORY_IDS, history_id)
          /\ UNCHANGED <<APP_START_TIME, PROCESSED_MESSAGES>>
          /\ call' = [call EXCEPT !.remote = TRUE, !.authFailed = TRUE,
                                  !.kind = "auth_error", !.http = WebhookStatus("none")]
          /\ passed' = [passed EXCEPT ![history_id] = 0]
          /\ CallSave("respond")
    /\ UNCHANGED <<disk, now, mail, pending, locals, okDone, lastRolled,
                   effects, boot>>

\* get_new_messages and the empty-result return (lines 379-388).  A list
\* call that raises is caught inside get_new_messages, which returns [].
Resolve ==
    /\ pc = "list"
    /\ \E listOk \in BOOLEAN :
         LET ids == IF listOk THEN GetNewMessages(ListMessages, PROCESSED_MESSAGES)
                    ELSE <<>>
         IN /\ message_ids' = ids
            /\ IF ids = <<>>
               THEN /\ pc' = "respond"
                    /\ call' = [call EXCEPT !.listFailed = ~listOk, !.kind = "no_new",
                                            !.http = WebhookStatus("none")]
               ELSE /\ pc' = "process"
                    /\ call' = [call EXCEPT !.batch = ids]
    /\ UNCHANGED <<mem, disk, now, mail, pending, ret, history_id,
                   processed_emails, okDone, passed, lastRolled, effects,
                   saving, boot>>

\* The loop moves to the next message id, or to the response (lines 392, 405),
\* c being what the call has done so far.
AdvanceWith(c) ==
    /\ message_ids' = Tail(message_ids)
    /\ IF Tail(message_ids) = <<>>
       THEN /\ pc' = "respond"
            /\ call' = [c EXCEPT !.kind = "ok", !.http = WebhookStatus("none")]
       ELSE /\ pc' = "process"
            /\ call' = c

Advance == AdvanceWith(call)

\* get_email_details (lines 145-182): None when the get call or the
\* extraction raises, None when the date check fails, else the details.
GetEmailDetails(getOk, date, start) ==
    IF ~getOk THEN "None"
    ELSE IF ~IsMessageAfterStartTime(date, start) THEN "None"
    ELSE "details"

\* download_attachment (lines 231-253): the file name, or None when the
\* fetch or the write raised.
DownloadAttachment(dlOk) == IF dlOk THEN "filename" ELSE "None"

DownloadableAlways(attachment) == TRUE
\* `if attachment['attachmentId']:` (line 301)
Downloadable(attachment) == attachment.attachmentId \notin {NoId, ""}

\* The download loop of process_email (lines 295-311), dlOk[i] telling
\* whether the download of the i-th attachment goes well: how it went for
\* each attachment, the attachments as the loop leaves them (an entry that
\* was downloaded is given its downloaded_filename in place), and the list
\* of the downloaded ones.
DownloadLoop(attachments, dlOk) ==
    LET outcomes == [i \in 1..Len(attachments) |->
                        IF Downloadable(attachments[i])
                        THEN DownloadAttachment(dlOk[i]) ELSE "skipped"]
        after == [i \in 1..Len(attachments) |->
                    IF outcomes[i] = "filename"
                    THEN [attachments[i] EXCEPT
                            !.downloaded_filename = <<"uuid", attachments[i].filename>>]
                    ELSE attachments[i]]
    IN [outcomes |-> outcomes,
        attachments |-> after,
        downloaded_attachments |->
            SelectSeq(after, LAMBDA a : a.downloaded_filename # <<>>)]

SaveEmailDataRaises(writeOk) == IF writeOk THEN "filename" ELSE "raise"
\* save_email_data (lines 267-283): the file name, or None when the write
\* raised.
SaveEmailData(writeOk) == IF writeOk THEN "filename" ELSE "None"

\* mark_message_as_read (lines 255-265): a failure is logged and dropped.
MarkMessageAsRead(readOk) == IF readOk THEN "done" ELSE "failed"

\* process_email for the next message id, to its save_app_state call
\* (lines 285-327), or to its `return None`.  A step that ends in "raise"
\* lands in the `except` of line 331.
ProcessEmail ==
    /\ pc = "process"
    /\ LET m == Head(message_ids)
           date == mail[m].date
           payload == mail[m].payload
           files == 1..Len(ExtractAttachmentInfo(payload))
       IN \E getOk, writeOk, readOk \in BOOLEAN, dlOk \in [files -> BOOLEAN] :
            LET details == GetEmailDetails(getOk, date, APP_START_TIME)
                body == IF details = "details" THEN ExtractBody(payload) ELSE ""
                attachments == IF details = "details"
                               THEN ExtractAttachmentInfo(payload) ELSE <<>>
                loop == DownloadLoop(attachments, dlOk)
                tried == {i \in 1..Len(attachments) : loop.outcomes[i] # "skipped"}
                dl == IF tried = {} THEN "none"
                      ELSE IF \E i \in tried : loop.outcomes[i] = "None" THEN "None"
                      ELSE "filename"
                js == IF details = "details" /\ dl # "raise"
                      THEN SaveEmailData(writeOk) ELSE "none"
                rd == IF js \notin {"none", "raise"}
                      THEN MarkMessageAsRead(readOk) ELSE "none"
                None == details # "details" \/ "raise" \in {dl, js, rd}
                c == [call EXCEPT
                        !.wrote = @ \/ js = "filename",
                        !.log[m] = [date |-> date, payload |-> payload,
                                    fetch |-> IF getOk THEN "ok" ELSE "failed",
                                    download |-> dl, write |-> js, read |-> rd,
                                    result |-> IF None THEN "None" ELSE "details",
                                    body |-> body,
                                    attachments |-> loop.attachments,
                                    downloaded_attachments |-> loop.downloaded_attachments,
                                    outcomes |-> loop.outcomes]]
            IN /\ \A i \in files : i \notin tried => dlOk[i]
               /\ js = "none" => writeOk
               /\ rd = "none" => readOk
               /\ PROCESSED_MESSAGES' = IF rd = "none" THEN PROCESSED_MESSAGES
                                        ELSE PROCESSED_MESSAGES \cup {m}
               /\ UNCHANGED <<APP_START_TIME, PROCESSED_HISTORY_IDS>>
               /\ effects' = [effects EXCEPT
                      ![m].wrote = IF js = "filename" THEN Min(@ + 1, MaxCount) ELSE @,
                      ![m].read = IF rd = "none" THEN @ ELSE Min(@ + 1, MaxCount)]
               /\ mail' = IF rd = "done"
                          THEN [mail EXCEPT ![m] = ReadMail]
                          ELSE mail
               /\ IF None
                  THEN /\ AdvanceWith(c)
                       /\ UNCHANGED <<ret, processed_emails, saving>>
                  ELSE /\ call' = c
                       /\ CallSave("appended")
                       /\ UNCHANGED <<message_ids, processed_emails>>
    /\ UNCHANGED <<disk, now, pending, history_id, okDone, passed,
                   lastRolled, boot>>

\* process_email returned its record: it joins the response (lines 394-401).
Appended ==
    /\ pc = "appended"
    /\ processed_emails' = Append(processed_emails, Head(message_ids))
    /\ Advance
    /\ UNCHANGED <<mem, disk, now, mail, pending, ret, history_id,
                   okDone, passed, lastRolled, effects, saving, boot>>

\* The response leaves; the handler's frame is gone.
Respond ==
    /\ pc = "respond"
    /\ pc' = "idle"
    /\ okDone' = IF call.kind \in {"ok", "no_new", "skip"} THEN okDone \cup {call.h}
                 ELSE okDone
    /\ lastRolled' = IF call.kind = "auth_error" THEN {call.h}
                     ELSE IF call.kind \in {"status", "check"} THEN lastRolled
                     ELSE {}
    /\ call' = NoCall
    /\ history_id' = NoneV
    /\ message_ids' = <<>>
    /\ processed_emails' = <<>>
    /\ UNCHANGED <<mem, disk, now, mail, pending, ret, passed,
                   effects, saving, boot>>

ClearedKept(S) == S
\* set.clear()
Cleared(S) == {}

\* reset_start_time (lines 423-437).
Reset ==
    /\ pc = "idle"
    /\ \E t \in now..MaxTime : now' = t /\ APP_START_TIME' = t
    /\ PROCESSED_MESSAGES' = Cleared(PROCESSED_MESSAGES)
    /\ PROCESSED_HISTORY_IDS' = Cleared(PROCESSED_HISTORY_IDS)
    /\ CallSave("respond")
    /\ call' = [NoCall EXCEPT !.kind = "reset", !.http = 200, !.pre = mem]
    /\ okDone' = {}
    /\ passed' = NoPassed
    /\ lastRolled' = {}
    /\ effects' = NoEffects
    /\ UNCHANGED <<disk, mail, pending, locals, boot>>

\* get_status (lines 439-448).
GetStatus ==
    /\ pc = "idle"
    /\ pc' = "respond"
    /\ call' = [NoCall EXCEPT !.kind = "status", !.http = 200, !.pre = mem]
    /\ UNCHANGED <<mem, disk, now, mail, pending, ret, locals, okDone, passed,
                   lastRolled, effects, saving, boot>>

ManualCheckProcesses ==
    /\ pc = "idle"
    /\ pc' = "respond"
    /\ LET ids == GetNewMessages(ListMessages, PROCESSED_MESSAGES)
       IN /\ message_ids' = ids
          /\ PROCESSED_MESSAGES' = PROCESSED_MESSAGES \cup {ids[i] : i \in 1..Len(ids)}
          /\ call' = [NoCall EXCEPT !.kind = "check", !.http = 200, !.pre = mem,
                                    !.remote = TRUE, !.batch = ids]
    /\ UNCHANGED <<APP_START_TIME, PROCESSED_HISTORY_IDS, disk, now, mail, pending,
                   ret, history_id, processed_emails, okDone, passed, lastRolled,
                   effects, saving, boot>>

\* manual_check_gmail (lines 450-466): get_gmail_service, whose exception
\* ends the handler with an error object, then get_new_messages.
ManualCheck ==
    /\ pc = "idle"
    /\ pc' = "respond"
    /\ \E authOk, listOk \in BOOLEAN :
         LET ids == IF authOk /\ listOk
                    THEN GetNewMessages(ListMessages, PROCESSED_MESSAGES)
                    ELSE <<>>
         IN /\ ~authOk => listOk
            /\ message_ids' = ids
            /\ call' = [NoCall EXCEPT !.kind = "check", !.http = 200, !.pre = mem,
                                      !.remote = TRUE, !.batch = ids]
    /\ UNCHANGED <<mem, disk, now, mail, pending, ret, history_id,
                   processed_emails, okDone, passed, lastRolled, effects,
                   saving, boot>>

\* ------------------------------------------------------------ environment
\* A message reaches the inbox with one of the Date headers D and one of the
\* payloads P.
Post(m, D, P) ==
    /\ pc = "idle"
    /\ mail[m].state = "none"
    /\ \E d \in D, p \in P :
          mail' = [mail EXCEPT ![m] = [state |-> "unread", date |-> d, payload |-> p]]
    /\ UNCHANGED <<mem, disk, now, pending, pc, ret, locals, ghost>>

\* The payload of message m where the payloads are not what is looked at: the
\* first message has a file attached, the others are text alone.
PayloadOf == [m \in MessageIds |-> {IF m = MsgOrder[1] THEN WithFile ELSE TextOnly}]

\* A message reaches the inbox, its Date header being a time in UTC.
Arrive(m) == Post(m, UtcDates, PayloadOf[m])

\* A message reaches the inbox, its Date header being anything the sender
\* wrote.
ArriveAny(m) == Post(m, DateHeaders, PayloadOf[m])

\* A message of any payload reaches the inbox after the service started.
ArriveWith(m) == Post(m, {DateHeader(MaxTime, 0)}, Payloads)

\* What a crash leaves of the process: its memory and its open requests are
\* gone, the mailbox stays as it is.
Died(kind) ==
    /\ pc' = "down"
    /\ ret' = "none"
    /\ APP_START_TIME' = 0
    /\ PROCESSED_MESSAGES' = {}
    /\ PROCESSED_HISTORY_IDS' = {}
    /\ history_id' = NoneV
    /\ message_ids' = <<>>
    /\ processed_emails' = <<>>
    /\ pending' = NoPending
    /\ call' = NoCall
    /\ passed' = NoPassed
    /\ lastRolled' = {}
    /\ effects' = NoEffects
    /\ saving' = NoBoot
    /\ boot' = IF kind = "crash_in_save"
               THEN [NoBoot EXCEPT !.kind = kind, !.old = saving.old, !.new = saving.new]
               ELSE IF kind = "stopped_idle"
               THEN [NoBoot EXCEPT !.kind = kind, !.mem = mem]
               ELSE [NoBoot EXCEPT !.kind = kind]
    /\ UNCHANGED <<now, mail, okDone>>

\* The process dies outside save_app_state, at any point.
Crash ==
    /\ pc \notin {"down", "save"}
    /\ Died(IF pc = "idle" THEN "stopped_idle" ELSE "crash")
    /\ UNCHANGED disk

\* The process dies inside save_app_state, after k of its file operations.
SaveCrash(k) ==
    /\ pc = "save"
    /\ LET d == SaveUpTo(k, disk, APP_START_TIME, PROCESSED_MESSAGES, PROCESSED_HISTORY_IDS)
       IN /\ app_start_time_txt' = d[1]
          /\ processed_messages_txt' = d[2]
          /\ processed_history_ids_txt' = d[3]
    /\ Died("crash_in_save")

\* The module is imported again: lines 24-26.
Restart ==
    /\ pc = "down"
    /\ \E t \in now..MaxTime : now' = t /\ APP_START_TIME' = t
    /\ PROCESSED_MESSAGES' = {}
    /\ PROCESSED_HISTORY_IDS' = {}
    /\ pc' = "load_epoch"
    /\ boot' = [boot EXCEPT !.files = disk]
    /\ UNCHANGED <<disk, mail, pending, ret, locals, call, okDone,
                   passed, lastRolled, effects, saving>>

\* load_app_state, the start time (lines 49-59).
LoadEpoch ==
    /\ pc = "load_epoch"
    /\ IF app_start_time_txt.exists /\ IsoParses(Strip(app_start_time_txt.text))
       THEN /\ APP_START_TIME' = FromIsoFormat(Strip(app_start_time_txt.text))
            /\ pc' = "load_sets"
            /\ UNCHANGED <<PROCESSED_MESSAGES, PROCESSED_HISTORY_IDS, ret, saving>>
       ELSE /\ UNCHANGED mem
            /\ CallSave("load_sets")
    /\ UNCHANGED <<disk, now, mail, pending, locals, call, okDone, passed,
                   lastRolled, effects, boot>>

\* load_app_state, the two sets (lines 61-77).
LoadSets ==
    /\ pc = "load_sets"
    /\ PROCESSED_MESSAGES' = IF processed_messages_txt.exists
                             THEN ReadLines(processed_messages_txt)
                             ELSE PROCESSED_MESSAGES
    /\ PROCESSED_HISTORY_IDS' = IF processed_history_ids_txt.exists
                                THEN {StrV(l) : l \in ReadLines(processed_history_ids_txt)}
                                ELSE PROCESSED_HISTORY_IDS
    /\ pc' = "loaded"
    /\ UNCHANGED <<APP_START_TIME, disk, now, mail, pending, ret, locals, ghost>>

\* The server starts to listen.
Serve ==
    /\ pc = "loaded"
    /\ pc' = "idle"
    /\ boot' = NoBoot
    /\ UNCHANGED <<mem, disk, now, mail, pending, ret, locals, call, okDone,
                   passed, lastRolled, effects, saving>>

\* The steps of the handlers.
Handlers ==
    \/ \E env \in Envelopes : Begin(env)
    \/ \E env \in Malformed : BadRequest(env)
    \/ Authenticate
    \/ Resolve
    \/ ProcessEmail
    \/ Appended
    \/ Respond
    \/ Reset
    \/ SaveStep

\* The two read-only endpoints.
Diagnostics ==
    \/ GetStatus
    \/ ManualCheck

\* The transport delivers one of the notifications E.
Transport(E) == \E env \in E : Deliver(env)

\* The start of the process.
Boot ==
    \/ Restart
    \/ LoadEpoch
    \/ LoadSets
    \/ Serve

\* One life of the process, from its first start in an empty directory, the
\* notifications carrying a string history id or none.
Next ==
    \/ Transport(TextOrMissing)
    \/ Handlers
    \/ Diagnostics
    \/ Boot
    \/ \E m \in MessageIds : Arrive(m)

Spec == Init /\ [][Next]_vars

\* The process over its crashes and restarts, with one message in the mailbox,
\* the notifications carrying a string or a number as history id.
NextCrash ==
    \/ Transport(TextOrNumber)
    \/ Handlers
    \/ Boot
    \/ Arrive(MsgOrder[1])
    \/ Crash
    \/ \E k \in 0..5 : SaveCrash(k)

SpecCrash == Init /\ [][NextCrash]_vars

\* One life of the process with every kind of Date header in the mailbox,
\* the notifications carrying one history id.
NextMail ==
    \/ Deliver(Notification)
    \/ Handlers
    \/ Boot
    \/ \E m \in MessageIds : ArriveAny(m)

SpecMail == Init /\ [][NextMail]_vars

\* One life of the process with one message of any payload in the mailbox,
\* the notifications carrying one history id.
NextParts ==
    \/ Deliver(Notification)
    \/ Begin(Notification)
    \/ Authenticate
    \/ Resolve
    \/ ProcessEmail
    \/ Appended
    \/ Respond
    \/ SaveStep
    \/ Boot
    \/ ArriveWith(MsgOrder[1])

SpecParts == Init /\ [][NextParts]_vars

\* One notification under redelivery.  The transport delivers it again, also
\* while an earlier delivery is still being handled, until a delivery of it
\* is answered without a server error; the messages are in the mailbox when
\* it first arrives.
Answered == Notification.historyId \in okDone \cup lastRolled

Redeliver ==
    /\ ~Answered
    /\ Deliver(Notification)

ArriveBefore(m) ==
    /\ PROCESSED_HISTORY_IDS = {}
    /\ pending[Notification] = 0
    /\ ~Answered
    /\ Arrive(m)

NextLive ==
    \/ Redeliver
    \/ Begin(Notification)
    \/ Authenticate
    \/ Resolve
    \/ ProcessEmail
    \/ Appended
    \/ Respond
    \/ SaveStep
    \/ Boot
    \/ \E m \in MessageIds : ArriveBefore(m)

\* The event loop runs every handler that can run and the transport keeps
\* delivering; a remote call that is tried again and again succeeds in the
\* end.
Fairness ==
    /\ WF_vars(Redeliver)
    /\ WF_vars(Begin(Notification))
    /\ WF_vars(Authenticate)
    /\ WF_vars(Resolve)
    /\ WF_vars(ProcessEmail)
    /\ WF_vars(Appended)
    /\ WF_vars(Respond)
    /\ WF_vars(SaveStep)
    /\ WF_vars(Boot)
    /\ SF_vars(Authenticate /\ ~call'.authFailed)
    /\ SF_vars(Resolve /\ ~call'.listFailed)
    /\ SF_vars(ProcessEmail /\ PROCESSED_MESSAGES' # PROCESSED_MESSAGES)

SpecLive == Init /\ [][NextLive]_vars /\ Fairness

\* ----------------------------------------------------------------- claims
HistFileHas(h) == PyStr(h) \in ReadLines(processed_history_ids_txt)

\* C1: a webhook call carrying a history id for which an earlier call
\* completed with a non-error result, no reset in between, answers "Already
\* processed", makes no remote call and writes no artifact.
C1_ReplayIsSkipped ==
    (pc = "respond" /\ call.replay) =>
        (call.kind = "skip" /\ ~call.remote /\ ~call.wrote)

\* C2: a webhook call whose list query raised ends with its history id out
\* of PROCESSED_HISTORY_IDS, in memory and in the file.
C2_ListFailureRollsBack ==
    (pc = "respond" /\ call.listFailed) =>
        (~AlreadyProcessed(PROCESSED_HISTORY_IDS, call.h) /\ ~HistFileHas(call.h))

\* C3: a webhook call whose credential acquisition failed ends with its
\* history id out of PROCESSED_HISTORY_IDS and with the three files written
\* from the memory, and the next webhook call carrying the same history id is
\* not answered "Already processed".
C3_AuthFailureRollsBack ==
    /\ (pc = "respond" /\ call.authFailed) =>
           (~AlreadyProcessed(PROCESSED_HISTORY_IDS, call.h) /\ Persisted)
    /\ (pc = "respond" /\ call.retry) => call.kind # "skip"

\* C3 witness: the retry of a rolled-back notification is processed to the
\* end, a message included.
C3_Witness == pc = "respond" /\ call.retry /\ call.kind = "ok" /\ call.wrote

\* C4: a webhook call whose envelope decoded and whose credential
\* acquisition or list query failed is answered with a server error.
C4_FailureIsServerError ==
    (pc = "respond" /\ (call.authFailed \/ call.listFailed)) => call.http >= 500

\* C5: within one life of the process and with no reset, the artifact of a
\* message is written at most once and the message is marked read at most
\* once, and the pipeline never runs on an id of PROCESSED_MESSAGES.
C5_AtMostOncePerMessage ==
    /\ \A m \in MessageIds : effects[m].wrote <= 1 /\ effects[m].read <= 1
    /\ pc = "process" => Head(message_ids) \notin PROCESSED_MESSAGES

\* C5 witness: a later notification with another history id lists a message
\* that was processed but is still unread (its mark-read failed), and the
\* resolver drops it.
C5_Witness ==
    /\ pc = "respond" /\ call.kind = "no_new" /\ ~call.listFailed
    /\ \E m \in MessageIds :
          /\ mail[m].state = "unread" /\ m \in PROCESSED_MESSAGES
          /\ effects[m].read = 1 /\ effects[m].wrote = 1
    /\ \E h \in okDone : h # call.h

\* C6: of the webhook calls carrying one history id, at most one passes the
\* de-dup check, until that one rolls its mark back or a reset happens.
C6_OnePassesTheGate == \A h \in HistoryIdValues : passed[h] <= 1

\* C6 witness: a call is past the gate while a second request with the same
\* history id is in flight.
C6_Witness ==
    /\ pc \in {"auth", "list", "process"}
    /\ pending[Envelope("data", "json", history_id)] > 0

EpochBad(d) == ~(d[1].exists /\ IsoParses(Strip(d[1].text)))
MsgBad(d) == ~d[2].exists
HistBad(d) == ~d[3].exists
OneBad(d) ==
    \/ EpochBad(d) /\ ~MsgBad(d) /\ ~HistBad(d)
    \/ ~EpochBad(d) /\ MsgBad(d) /\ ~HistBad(d)
    \/ ~EpochBad(d) /\ ~MsgBad(d) /\ HistBad(d)

\* C7: when exactly one of the three files is missing or unreadable at load
\* time, load_app_state gives that component its default and loads the other
\* two from their files, which it leaves as they were.
C7_LoadIsPerComponent ==
    (pc = "loaded" /\ OneBad(boot.files)) =>
        LET d == boot.files
        IN /\ IF EpochBad(d) THEN APP_START_TIME = now
              ELSE /\ APP_START_TIME = FromIsoFormat(Strip(d[1].text))
                   /\ app_start_time_txt = d[1]
           /\ IF MsgBad(d) THEN PROCESSED_MESSAGES = {}
              ELSE /\ PROCESSED_MESSAGES = ReadLines(d[2])
                   /\ processed_messages_txt = d[2]
           /\ IF HistBad(d) THEN PROCESSED_HISTORY_IDS = {}
              ELSE /\ PROCESSED_HISTORY_IDS = {StrV(l) : l \in ReadLines(d[3])}
                   /\ processed_history_ids_txt = d[3]

\* C8: after a crash inside save_app_state, the three files read as the
\* whole watermark from before the save or as the whole watermark being
\* saved.
C8_SaveIsAtomic ==
    (pc = "down" /\ boot.kind = "crash_in_save") =>
        Observed(app_start_time_txt, processed_messages_txt,
                 processed_history_ids_txt) \in {boot.old, boot.new}

\* C9: after the process stopped with its watermark saved and started
\* again, every history id (string or number) that was in
\* PROCESSED_HISTORY_IDS is still answered "Already processed", and every
\* message id that was in PROCESSED_MESSAGES is still dropped by the resolver.
C9_DedupSurvivesRestart ==
    (pc = "loaded" /\ boot.kind = "stopped_idle") =>
        /\ \A h \in boot.mem[3] :
              h.t \in {"str", "int"} => AlreadyProcessed(PROCESSED_HISTORY_IDS, h)
        /\ \A m \in boot.mem[2] :
              GetNewMessages(<<m>>, PROCESSED_MESSAGES) = <<>>

\* C10: a request whose body lacks message or message.data, or whose data
\* is not base64 or not JSON, is answered with a client error and leaves the
\* watermark as it was.
C10_MalformedIsClientError ==
    (pc = "respond" /\ call.malformed) =>
        (call.http \in 400..499 /\ mem = call.pre)

\* C11: a notification whose payload has no historyId is never answered
\* "Already processed" and never rejected: each one, the second and later
\* ones included, passes the gate and goes on to the remote work.
C11_MissingIdIsNeverSkipped ==
    (pc = "respond" /\ call.kind \in {"skip", "http_error", "auth_error", "no_new", "ok"}
        /\ ~call.malformed /\ call.h = NoneV) =>
        (call.kind \notin {"skip", "http_error"} /\ call.remote)

InSeq(x, seq) == \E i \in 1..Len(seq) : seq[i] = x

\* The instant a Date header names lies strictly before the epoch start.
IsStale(date, start) == date.k = "date" /\ Instant(date) < start

\* C12: a message that process_email met with a Date header naming an
\* instant strictly before APP_START_TIME is not processed: no artifact is
\* written, no mark-read is issued, its id is not added to
\* PROCESSED_MESSAGES and it is not in the emails of the response.
C12_StaleIsNeverProcessed ==
    \A m \in MessageIds :
        (call.log[m].fetch # "none" /\ IsStale(call.log[m].date, APP_START_TIME)) =>
            /\ call.log[m].result = "None"
            /\ call.log[m].write = "none" /\ call.log[m].read = "none"
            /\ m \notin PROCESSED_MESSAGES
            /\ ~InSeq(m, processed_emails)

\* C13: reset_start_time leaves APP_START_TIME at the current time, both sets
\* empty and the three files written from that memory; every history id seen
\* before it passes the gate again and every message id processed before it
\* passes the resolver's filter again, and a later call is answered "Already
\* processed" only for an id that completed after the reset.
C13_ResetClearsTheWatermark ==
    /\ (pc = "respond" /\ call.kind = "reset") =>
           /\ APP_START_TIME = now
           /\ PROCESSED_MESSAGES = {} /\ PROCESSED_HISTORY_IDS = {}
           /\ Persisted
           /\ \A h \in call.pre[3] : ~AlreadyProcessed(PROCESSED_HISTORY_IDS, h)
           /\ \A m \in call.pre[2] : GetNewMessages(<<m>>, PROCESSED_MESSAGES) = <<m>>
    /\ (pc = "respond" /\ call.kind = "skip") => call.replay

\* C13 witness: a reset that found both sets filled and moved the epoch.
C13_Witness ==
    /\ pc = "respond" /\ call.kind = "reset"
    /\ call.pre[2] # {} /\ call.pre[3] # {} /\ call.pre[1] < APP_START_TIME

\* C14: get_status and manual_check_gmail, from their start to their
\* response, leave APP_START_TIME, both sets and the three files as they
\* were, and run no process_email: no artifact is written, no message is
\* marked read.
C14_DiagnosticsChangeNothing ==
    [][(call.kind \in {"status", "check"} \/ call'.kind \in {"status", "check"}) =>
          /\ UNCHANGED <<mem, disk, mail, effects>>
          /\ call'.log = NoLogs /\ ~call'.wrote]_vars

\* C14 witness: the manual trigger answers with a candidate message while
\* the watermark holds a processed message and a seen history id.
C14_Witness ==
    /\ pc = "respond" /\ call.kind = "check" /\ call.batch # <<>>
    /\ PROCESSED_MESSAGES # {} /\ PROCESSED_HISTORY_IDS # {}

\* An unread message in the scan window whose Date header names an instant at
\* or after the epoch start.
Eligible(m) ==
    /\ mail[m].state = "unread"
    /\ InSeq(m, ListMessages)
    /\ mail[m].date.k = "date" /\ Instant(mail[m].date) >= APP_START_TIME

\* C15: under redelivery of one notification until it is answered without a
\* server error, and with remote calls that succeed in the end, every
\* message that is eligible when the notification is delivered ends up in
\* PROCESSED_MESSAGES.
C15_ForwardProgress ==
    \A m \in MessageIds :
        (pending[Notification] > 0 /\ Eligible(m)) ~> (m \in PROCESSED_MESSAGES)

\* C16: a message that was fetched and whose Date header does not parse is
\* not filtered: get_email_details returns its details and process_email
\* adds it to PROCESSED_MESSAGES.
C16_UnparsableDateIsAdmissible ==
    \A m \in MessageIds :
        (call.log[m].fetch = "ok" /\ call.log[m].date.k = "unparsable") =>
            (call.log[m].result = "details" /\ m \in PROCESSED_MESSAGES)

\* C17: wherever a webhook call is about to make a remote call (credential
\* acquisition, list, get and what follows it), its history id is in
\* PROCESSED_HISTORY_IDS and in the history id file.
C17_MarkedBeforeRemote ==
    pc \in {"auth", "list", "process"} =>
        /\ AlreadyProcessed(PROCESSED_HISTORY_IDS, history_id)
        /\ HistFileHas(history_id)

\* C17 witness: the retry of a rolled-back notification stands before its
\* credential acquisition, marked and saved again.
C17_Witness == pc = "auth" /\ call.retry /\ ~call.remote

\* A fetch, attachment download or artifact write of message m failed in the
\* running call.
StepFailed(m) ==
    \/ call.log[m].fetch = "failed"
    \/ call.log[m].download = "None"
    \/ call.log[m].write = "None"

\* C18: at the response of a webhook call that resolved a batch, process_email
\* has run on every message of the batch; a message none of whose steps
\* failed and which was not filtered as stale has its artifact written, its
\* mark-read issued, its id in PROCESSED_MESSAGES and in the emails of the
\* response; a message with a failed fetch, attachment download or artifact
\* write is not in the emails of the response.
C18_PerMessageIsolation ==
    (pc = "respond" /\ call.kind = "ok") =>
        \A i \in 1..Len(call.batch) :
            LET m == call.batch[i]
            IN /\ call.log[m].fetch # "none"
               /\ (~StepFailed(m) /\ IsMessageAfterStartTime(call.log[m].date, APP_START_TIME)) =>
                      /\ call.log[m].write = "filename" /\ call.log[m].read # "none"
                      /\ m \in PROCESSED_MESSAGES
                      /\ InSeq(m, processed_emails)
               /\ StepFailed(m) => ~InSeq(m, processed_emails)

\* The artifact write of message m was tried in the running call and failed.
WriteFailed(m) == call.log[m].write \notin {"none", "filename"}

\* C19: a message whose artifact write failed is in PROCESSED_MESSAGES, its
\* mark-read was issued and, once the save_app_state call that follows has
\* returned, its id is in the processed-messages file; from then on (with no
\* reset or restart) the resolver drops it and the tail of process_email has
\* run on it once.
C19_WriteFailureStillMarks ==
    /\ \A m \in MessageIds :
          WriteFailed(m) =>
             /\ m \in PROCESSED_MESSAGES
             /\ call.log[m].read # "none"
             /\ \/ pc = "save" /\ ret = "appended" /\ Head(message_ids) = m
                \/ m \in ReadLines(processed_messages_txt)
    /\ \A m \in MessageIds :
          effects[m].read > effects[m].wrote =>
             /\ GetNewMessages(<<m>>, PROCESSED_MESSAGES) = <<>>
             /\ effects[m].read = 1

\* C19 witness: a call ends with a message marked read whose artifact write
\* failed.
C19_Witness ==
    /\ pc = "respond" /\ call.kind = "ok"
    /\ \E m \in MessageIds :
          /\ call.log[m].write = "None" /\ mail[m].state = "read"
          /\ m \in ReadLines(processed_messages_txt)

\* C20: whenever no handler is running, the three files are what
\* save_app_state writes from the memory: the epoch, the processed message
\* ids and the seen history ids, whatever webhook and reset calls ran before
\* and whatever requests are waiting.
C20_PersistedTracksMemory == pc = "idle" => Persisted

\* C20 witness: the service is idle at the latest epoch with both sets
\* filled and a further request waiting.
C20_Witness ==
    /\ pc = "idle" /\ PendingTotal(pending) > 0
    /\ PROCESSED_MESSAGES # {} /\ PROCESSED_HISTORY_IDS # {}
    /\ APP_START_TIME = MaxTime /\ now = MaxTime


\* The decoded contents of the plain-text parts anywhere in a tree.
RECURSIVE PlainTexts(_)
PlainTexts(part) ==
    (IF part.mimeType = "text/plain" /\ part.hasData THEN {B64Decode(part.data)} ELSE {})
    \cup UNION {PlainTexts(part.parts[i]) : i \in 1..Len(part.parts)}

\* The decoded contents of the HTML parts of a tree, in depth-first,
\* left-to-right order.
RECURSIVE HtmlTexts(_), HtmlTextsFrom(_, _)
HtmlTextsFrom(parts, i) ==
    IF i > Len(parts) THEN <<>> ELSE HtmlTexts(parts[i]) \o HtmlTextsFrom(parts, i + 1)

HtmlTexts(part) ==
    (IF part.mimeType = "text/html" /\ part.hasData THEN <<B64Decode(part.data)>> ELSE <<>>)
    \o HtmlTextsFrom(part.parts, 1)

\* get_email_details returned the details of message m to process_email.
Fetched(m) == call.log[m].write # "none"

\* C21: the body extracted from a multi-part tree is the decoded content of
\* a plain-text part whenever the tree has a plain-text part anywhere; when
\* it has none, it is the first HTML part in depth-first, left-to-right
\* order.
C21_PlainTextHasPriority ==
    \A m \in MessageIds :
        (Fetched(m) /\ call.log[m].payload.hasParts) =>
            LET tree == call.log[m].payload
                body == call.log[m].body
            IN IF PlainTexts(tree) # {} THEN body \in PlainTexts(tree)
               ELSE IF HtmlTexts(tree) # <<>> THEN body = Head(HtmlTexts(tree))
               ELSE body = ""

\* The file name and attachment id of every part of a tree that has a file
\* name, in depth-first, left-to-right order.
RECURSIVE FileParts(_), FilePartsFrom(_, _)
FilePartsFrom(parts, i) ==
    IF i > Len(parts) THEN <<>> ELSE FileParts(parts[i]) \o FilePartsFrom(parts, i + 1)

FileParts(part) ==
    (IF part.filename # "" THEN <<[filename |-> part.filename, attachmentId |-> part.attachmentId]>>
     ELSE <<>>)
    \o FilePartsFrom(part.parts, 1)

\* The entries of attachments from the i-th on that have an attachment id
\* and whose download went well.
RECURSIVE WithIdAndDownloaded(_, _, _)
WithIdAndDownloaded(attachments, outcomes, i) ==
    IF i > Len(attachments) THEN <<>>
    ELSE (IF attachments[i].attachmentId # NoId /\ outcomes[i] = "filename"
          THEN <<attachments[i]>> ELSE <<>>)
         \o WithIdAndDownloaded(attachments, outcomes, i + 1)

\* C22: the record of a processed message lists every attached file of the
\* payload, those without an attachment id included; no download is tried
\* for an entry without an attachment id; and downloaded_attachments is the
\* sub-sequence of attachments of exactly the entries that have an
\* attachment id and whose download succeeded.
C22_NoIdIsKeptAndNotDownloaded ==
    \A m \in MessageIds :
        Fetched(m) =>
            LET attachments == call.log[m].attachments
                outcomes == call.log[m].outcomes
            IN /\ [i \in 1..Len(attachments) |->
                      [filename |-> attachments[i].filename,
                       attachmentId |-> attachments[i].attachmentId]]
                    = FileParts(call.log[m].payload)
               /\ Len(outcomes) = Len(attachments)
               /\ \A i \in 1..Len(attachments) :
                     attachments[i].attachmentId = NoId => outcomes[i] = "skipped"
               /\ call.log[m].downloaded_attachments
                    = WithIdAndDownloaded(attachments, outcomes, 1)

\* C22 witness: a message with two attached files, the first with an
\* attachment id and the second without, was processed and its one download
\* went well: two attachments, one downloaded attachment.
C22_Witness ==
    /\ pc = "respond" /\ call.kind = "ok"
    /\ \E m \in MessageIds :
          /\ call.log[m].result = "details"
          /\ Len(call.log[m].attachments) = 2
          /\ call.log[m].attachments[1].attachmentId = "att"
          /\ call.log[m].attachments[2].attachmentId = NoId
          /\ call.log[m].outcomes = <<"filename", "skipped">>
          /\ Len(call.log[m].downloaded_attachments) = 1

====
